---------------------------- MODULE Spec2Model ----------------------------
(***************************************************************************)
(* Model of the medical document analysis service: the POST /analyze       *)
(* batch handler (src/src/main.py), the per-document pipeline              *)
(* classify_document (src/src/analysis.py), the text extractor and its     *)
(* validator (src/src/textextraction.py) and the PDF rasterizer            *)
(* (src/src/pdfconverter.py).                                              *)
(*                                                                         *)
(* Strings the code inspects character by character (file names, model     *)
(* output) are sequences of one-character strings.                         *)
(***************************************************************************)
EXTENDS Integers, Sequences, FiniteSets, TLC

VARIABLES
    probe,      \* the call of a pure function under examination
    tasks,      \* the uploads of all requests: tasks[t] = [req, file]
    env,        \* the process environment: [openaiKey]
    st,         \* st[t]: where process(file) of task t is and what it holds
    running,    \* the task that occupies the event loop thread, 0 when idle
    ocrInFlight,\* OCR provider calls begun and not yet ended
    req,        \* req[r]: request r of POST /analyze, its gather and response
    imageDirs,  \* imageDirs[stem]: page numbers n with page_n.png on disk
    openDocs    \* tasks whose pdf_to_images call ended with its fitz document open

sysVars == <<tasks, env, st, running, ocrInFlight, req, imageDirs, openDocs>>

vars == <<probe, tasks, env, st, running, ocrInFlight, req, imageDirs, openDocs>>

-----------------------------------------------------------------------------
(* Character-level string helpers (str.lower, str.endswith, str.rfind).    *)

\* str.lower() on the characters file names of the model are made of
LowerChar(c) ==
    CASE c = "P" -> "p"
      [] c = "N" -> "n"
      [] c = "G" -> "g"
      [] c = "D" -> "d"
      [] c = "F" -> "f"
      [] OTHER -> c

Lower(s) == [i \in 1..Len(s) |-> LowerChar(s[i])]

\* s.endswith(e)
EndsWith(s, e) ==
    /\ Len(s) >= Len(e)
    /\ SubSeq(s, Len(s) - Len(e) + 1, Len(s)) = e

\* s.rfind(c), 1-based; 0 when c does not occur
RFind(s, c) ==
    LET hits == {i \in 1..Len(s) : s[i] = c}
    IN  IF hits = {} THEN 0 ELSE CHOOSE i \in hits : \A j \in hits : j <= i

\* os.path.basename(path): what follows the last "/"
Basename(path) == SubSeq(path, RFind(path, "/") + 1, Len(path))

\* pathlib.Path(path).suffix: the last component from its last dot on, unless
\* that dot is the first or the last character of the component
PathSuffix(path) ==
    LET name == Basename(path)
        i    == RFind(name, ".")
    IN  IF 1 < i /\ i < Len(name) THEN SubSeq(name, i, Len(name)) ELSE <<>>

-----------------------------------------------------------------------------
(* File validation: textextraction.py, _validate_file                      *)

ALLOWED_EXTENSIONS ==
    { <<".", "j", "p", "g">>, <<".", "j", "p", "e", "g">>,
      <<".", "p", "n", "g">>, <<".", "p", "d", "f">> }

MIN_FILE_SIZE == 1024

MAX_FILE_SIZE == 100 * 1024 * 1024

\* A file as the validator sees it: path, whether it exists, its size in
\* bytes, whether the process may read it.
ValidateResult(ok, msg, detail, checked) ==
    [ok |-> ok, msg |-> msg, detail |-> detail, checked |-> checked]

\* Mutation: the lower bound compared with <= instead of <
_validate_file_SizeOffByOne(f) ==
    IF ~f.exists
    THEN ValidateResult(FALSE, "File not found", <<>>, <<"exists">>)
    ELSE LET file_ext == Lower(PathSuffix(f.path)) IN
         IF file_ext \notin ALLOWED_EXTENSIONS
         THEN ValidateResult(FALSE, "Unsupported file type", file_ext,
                             <<"exists", "extension">>)
         ELSE IF f.size <= MIN_FILE_SIZE
         THEN ValidateResult(FALSE, "File too small", <<>>,
                             <<"exists", "extension", "size">>)
         ELSE IF f.size > MAX_FILE_SIZE
         THEN ValidateResult(FALSE, "File too large", <<>>,
                             <<"exists", "extension", "size">>)
         ELSE IF ~f.readable
         THEN ValidateResult(FALSE, "File not readable", <<>>,
                             <<"exists", "extension", "size", "readable">>)
         ELSE ValidateResult(TRUE, "OK", <<>>,
                             <<"exists", "extension", "size", "readable">>)

\* _validate_file(file_path): (is_valid, msg), and the checks it evaluated.
\* None of os.path.exists, os.path.getsize, os.access raises for a file
\* that does not change during the call, so the except branch is not taken.
_validate_file(f) ==
    IF ~f.exists
    THEN ValidateResult(FALSE, "File not found", <<>>, <<"exists">>)
    ELSE LET file_ext == Lower(PathSuffix(f.path)) IN
         IF file_ext \notin ALLOWED_EXTENSIONS
         THEN ValidateResult(FALSE, "Unsupported file type", file_ext,
                             <<"exists", "extension">>)
         ELSE IF f.size < MIN_FILE_SIZE
         THEN ValidateResult(FALSE, "File too small", <<>>,
                             <<"exists", "extension", "size">>)
         ELSE IF f.size > MAX_FILE_SIZE
         THEN ValidateResult(FALSE, "File too large", <<>>,
                             <<"exists", "extension", "size">>)
         ELSE IF ~f.readable
         THEN ValidateResult(FALSE, "File not readable", <<>>,
                             <<"exists", "extension", "size", "readable">>)
         ELSE ValidateResult(TRUE, "OK", <<>>,
                             <<"exists", "extension", "size", "readable">>)

-----------------------------------------------------------------------------
(* Text extraction: textextraction.py, extract_text_from_image             *)

IsSpace(c) == c \in {" ", "\n"}

RECURSIVE LStrip(_), RStrip(_)
LStrip(s) == IF s # <<>> /\ IsSpace(Head(s)) THEN LStrip(Tail(s)) ELSE s

RStrip(s) ==
    IF s # <<>> /\ IsSpace(s[Len(s)]) THEN RStrip(SubSeq(s, 1, Len(s) - 1)) ELSE s

\* str.strip()
Strip(s) == RStrip(LStrip(s))

RECURSIVE JoinLines(_, _)
\* "\n".join(doc.text for doc in documents), from document i on
JoinLines(docs, i) ==
    IF i > Len(docs) THEN <<>>
    ELSE (IF i > 1 THEN <<"\n">> ELSE <<>>) \o docs[i] \o JoinLines(docs, i + 1)

\* What the OCR provider does with one request: it fails (load_data raises)
\* or it returns the texts of the documents it found.
OcrError == [kind |-> "error", docs |-> <<>>]

OcrDocs(d) == [kind |-> "docs", docs |-> d]

\* The call goes out to the OCR provider only for a file that passed
\* validation and after the LlamaParse client was constructed.
ReachesOcr(f, parserOk) == _validate_file(f).ok /\ parserOk

ExtractResult(raised, text, called) ==
    [raised |-> raised, text |-> text, ocrCalled |-> called]

\* Mutation: a file that fails validation is rejected with an exception
extract_text_from_image_ValidationRaises(f, parserOk, ocr) ==
    IF ~_validate_file(f).ok THEN ExtractResult(TRUE, <<>>, FALSE)
    ELSE IF ~parserOk THEN ExtractResult(FALSE, <<>>, FALSE)
    ELSE IF ocr.kind = "error" THEN ExtractResult(FALSE, <<>>, TRUE)
    ELSE IF ocr.docs = <<>> THEN ExtractResult(FALSE, <<>>, TRUE)
    ELSE ExtractResult(FALSE, Strip(JoinLines(ocr.docs, 1)), TRUE)

\* Mutation: the handler catches only the client construction failure, a
\* provider failure propagates
extract_text_from_image_ProviderErrorEscapes(f, parserOk, ocr) ==
    IF ~_validate_file(f).ok THEN ExtractResult(FALSE, <<>>, FALSE)
    ELSE IF ~parserOk THEN ExtractResult(FALSE, <<>>, FALSE)
    ELSE IF ocr.kind = "error" THEN ExtractResult(TRUE, <<>>, TRUE)
    ELSE IF ocr.docs = <<>> THEN ExtractResult(FALSE, <<>>, TRUE)
    ELSE ExtractResult(FALSE, Strip(JoinLines(ocr.docs, 1)), TRUE)

\* extract_text_from_image(file_path): parserOk tells whether LlamaParse(...)
\* could be constructed, ocr is the provider's answer to load_data. Every
\* exception lands in the except branch, which returns "".
extract_text_from_image(f, parserOk, ocr) ==
    IF ~_validate_file(f).ok THEN ExtractResult(FALSE, <<>>, FALSE)
    ELSE IF ~parserOk THEN ExtractResult(FALSE, <<>>, FALSE)
    ELSE IF ocr.kind = "error" THEN ExtractResult(FALSE, <<>>, TRUE)
    ELSE IF ocr.docs = <<>> THEN ExtractResult(FALSE, <<>>, TRUE)
    ELSE ExtractResult(FALSE, Strip(JoinLines(ocr.docs, 1)), TRUE)

-----------------------------------------------------------------------------
(* PDF rasterization: pdfconverter.py, pdf_to_images                       *)

\* os.path.splitext(os.path.basename(path))[0]: the name up to its last dot,
\* the whole name when only dots precede that dot
SplitextRoot(path) ==
    LET name == Basename(path)
        i    == RFind(name, ".")
    IN  IF i > 0 /\ \E j \in 1..(i - 1) : name[j] # "."
        THEN SubSeq(name, 1, i - 1) ELSE name

DigitChar(d) == <<"0", "1", "2", "3", "4", "5", "6", "7", "8", "9">>[d + 1]

RECURSIVE Decimal(_)
\* str(n) of a non-negative integer
Decimal(n) ==
    IF n < 10 THEN <<DigitChar(n)>> ELSE Append(Decimal(n \div 10), DigitChar(n % 10))

\* f"page_{page_index}.png"
PageFileName(n) ==
    <<"p", "a", "g", "e", "_">> \o Decimal(n) \o <<".", "p", "n", "g">>

\* What one call does to the image directory of the PDF: an unreadable file
\* or f.pages = 0 is a file fitz.open rejects; f.badPage = b > 0 is a page whose get_pixmap or
\* save raises, after pages 1..b-1 were written and before document.close().
PdfResult(raised, pages, stem, leaked) ==
    [raised |-> raised, pages |-> pages, stem |-> stem, leaked |-> leaked]

\* pdf_to_images(pdf_path): present is the set of page numbers already in
\* the output directory; files of the same name are overwritten, no file is
\* removed.
pdf_to_images(f, present) ==
    LET stem == SplitextRoot(f.path) IN
    IF ~f.readable \/ f.pages = 0 THEN PdfResult(TRUE, present, stem, FALSE)
    ELSE IF f.badPage > 0
    THEN PdfResult(TRUE, present \cup 1..(f.badPage - 1), stem, TRUE)
    ELSE PdfResult(FALSE, present \cup 1..f.pages, stem, FALSE)

-----------------------------------------------------------------------------
(* Prompt assembly: analysis.py, classify_document, step 2                 *)

\* ord(c) of the characters page file names are made of
CharCode(c) ==
    CASE c = "." -> 46
      [] c = "0" -> 48 [] c = "1" -> 49 [] c = "2" -> 50 [] c = "3" -> 51
      [] c = "4" -> 52 [] c = "5" -> 53 [] c = "6" -> 54 [] c = "7" -> 55
      [] c = "8" -> 56 [] c = "9" -> 57
      [] c = "_" -> 95 [] c = "a" -> 97 [] c = "e" -> 101 [] c = "g" -> 103
      [] c = "n" -> 110 [] c = "p" -> 112

\* a < b for Python strings: by code point at the first difference, a proper
\* prefix first
LexLess(a, b) ==
    LET n    == IF Len(a) < Len(b) THEN Len(a) ELSE Len(b)
        diff == {i \in 1..n : a[i] # b[i]}
    IN  IF diff = {} THEN Len(a) < Len(b)
        ELSE LET i == CHOOSE d \in diff : \A e \in diff : d <= e
             IN  CharCode(a[i]) < CharCode(b[i])

\* sorted(os.listdir(image_dir)): the names in the directory in string order
SortedListing(present) ==
    LET names == {PageFileName(n) : n \in present}
    IN  [i \in 1..Cardinality(names) |->
            CHOOSE x \in names : Cardinality({y \in names : LexLess(y, x)}) = i - 1]

ImagePath(stem, name) == stem \o <<"/">> \o name

VisualResult(raised, msg, images, pages, leaked) ==
    [raised |-> raised, msg |-> msg, images |-> images, pages |-> pages,
     leaked |-> leaked]

\* Step 2 of classify_document: the image attachments of the request. A path
\* that ends in ".pdf" (lower-cased) is rasterized and every file of its
\* image directory is attached in sorted order; any other file is attached
\* itself, which needs it to be readable (image_to_base64 opens it).
VisualContext(f, present) ==
    IF EndsWith(Lower(f.path), <<".", "p", "d", "f">>)
    THEN LET r == pdf_to_images(f, present) IN
         IF r.raised
         THEN VisualResult(TRUE, "cannot render document", <<>>, r.pages, r.leaked)
         ELSE LET names == SortedListing(r.pages)
              IN  VisualResult(FALSE, "",
                      [i \in 1..Len(names) |-> ImagePath(r.stem, names[i])],
                      r.pages, r.leaked)
    ELSE IF ~f.readable
         THEN VisualResult(TRUE, "Permission denied", <<>>, present, FALSE)
         ELSE VisualResult(FALSE, "", <<f.path>>, present, FALSE)

-----------------------------------------------------------------------------
(* Result parsing: analysis.py, extract_json_from_text                     *)
(*                                                                         *)
(* Model output is a sequence of characters: the four JSON braces, "," and *)
(* ":", " " (white space), "1" (a digit), "k" (a complete quoted string    *)
(* holding no brace, such as "name") and "x" (any other prose character).  *)
(* A JSON value is <<tag, parts>>: <<"num", digits>>, <<"str", <<>>>>,     *)
(* <<"arr", values>>, <<"obj", members>> with member <<key, <<value>>>>.   *)

RECURSIVE SkipWs(_, _)
\* json's white space skipping: the first position from i on holding no " "
SkipWs(s, i) ==
    IF i <= Len(s) /\ s[i] = " " THEN SkipWs(s, i + 1) ELSE i

RECURSIVE DigitsEnd(_, _)
\* the position after the run of digits that starts at i
DigitsEnd(s, i) ==
    IF i <= Len(s) /\ s[i] = "1" THEN DigitsEnd(s, i + 1) ELSE i

ParseFail == [ok |-> FALSE, val |-> <<"none", <<>>>>, next |-> 0]

ParseOk(v, n) == [ok |-> TRUE, val |-> v, next |-> n]

\* A dict keeps one value per key, the last one given
DictOf(members) ==
    LET keep == {i \in 1..Len(members) :
                    \A j \in (i + 1)..Len(members) : members[j][1] # members[i][1]}
        F[i \in 0..Len(members)] ==
            IF i = 0 THEN <<>>
            ELSE IF i \in keep THEN Append(F[i - 1], members[i]) ELSE F[i - 1]
    IN  <<"obj", F[Len(members)]>>

RECURSIVE ParseValue(_, _), ParseElems(_, _, _), ParseMembers(_, _, _)

\* json.JSONDecoder.raw_decode at position i: a value, and where it ends
ParseValue(s, i) ==
    IF i > Len(s) THEN ParseFail
    ELSE CASE s[i] = "1" -> ParseOk(<<"num", SubSeq(s, i, DigitsEnd(s, i) - 1)>>,
                                    DigitsEnd(s, i))
           [] s[i] = "k" -> ParseOk(<<"str", <<>>>>, i + 1)
           [] s[i] = "[" ->
                LET j == SkipWs(s, i + 1) IN
                IF j <= Len(s) /\ s[j] = "]" THEN ParseOk(<<"arr", <<>>>>, j + 1)
                ELSE ParseElems(s, j, <<>>)
           [] s[i] = "{" ->
                LET j == SkipWs(s, i + 1) IN
                IF j <= Len(s) /\ s[j] = "}" THEN ParseOk(<<"obj", <<>>>>, j + 1)
                ELSE ParseMembers(s, j, <<>>)
           [] OTHER -> ParseFail

\* the elements of an array from position i on: value, then "," or "]"
ParseElems(s, i, acc) ==
    LET r == ParseValue(s, i) IN
    IF ~r.ok THEN ParseFail
    ELSE LET j == SkipWs(s, r.next) IN
         IF j > Len(s) THEN ParseFail
         ELSE IF s[j] = "]" THEN ParseOk(<<"arr", Append(acc, r.val)>>, j + 1)
         ELSE IF s[j] = "," THEN ParseElems(s, SkipWs(s, j + 1), Append(acc, r.val))
         ELSE ParseFail

\* the members of an object from position i on: key ":" value, then "," or "}"
ParseMembers(s, i, acc) ==
    IF i > Len(s) \/ s[i] # "k" THEN ParseFail
    ELSE LET c == SkipWs(s, i + 1) IN
         IF c > Len(s) \/ s[c] # ":" THEN ParseFail
         ELSE LET r == ParseValue(s, SkipWs(s, c + 1)) IN
              IF ~r.ok THEN ParseFail
              ELSE LET j == SkipWs(s, r.next)
                       m == Append(acc, <<s[i], <<r.val>>>>)
                   IN  IF j > Len(s) THEN ParseFail
                       ELSE IF s[j] = "}" THEN ParseOk(DictOf(m), j + 1)
                       ELSE IF s[j] = "," THEN ParseMembers(s, SkipWs(s, j + 1), m)
                       ELSE ParseFail

\* json.loads(s): one value between optional white space, nothing after it
JsonLoads(s) ==
    LET r == ParseValue(s, SkipWs(s, 1)) IN
    IF r.ok /\ SkipWs(s, r.next) > Len(s) THEN r ELSE ParseFail

\* the last position after i holding c, 0 when there is none
LastAfter(s, i, c) ==
    LET hits == {j \in (i + 1)..Len(s) : s[j] = c}
    IN  IF hits = {} THEN 0 ELSE CHOOSE j \in hits : \A h \in hits : h <= j

\* the first position after i holding c, 0 when there is none
FirstAfter(s, i, c) ==
    LET hits == {j \in (i + 1)..Len(s) : s[j] = c}
    IN  IF hits = {} THEN 0 ELSE CHOOSE j \in hits : \A h \in hits : j <= h

\* where the pattern matches when tried at position i: "{" up to the last
\* "}" after it, else "[" up to the last "]" after it; 0 when neither
MatchAt(s, i) ==
    IF s[i] = "{" /\ LastAfter(s, i, "}") # 0 THEN LastAfter(s, i, "}")
    ELSE IF s[i] = "[" /\ LastAfter(s, i, "]") # 0 THEN LastAfter(s, i, "]")
    ELSE 0

\* Mutation: the pattern written with lazy quantifiers, (\{.*?\}|\[.*?\])
RegexSearch_Lazy(s) ==
    LET at(i) == IF s[i] = "{" /\ FirstAfter(s, i, "}") # 0 THEN FirstAfter(s, i, "}")
                 ELSE IF s[i] = "[" /\ FirstAfter(s, i, "]") # 0
                      THEN FirstAfter(s, i, "]")
                 ELSE 0
        starts == {i \in 1..Len(s) : at(i) # 0}
    IN  IF starts = {} THEN <<0, 0>>
        ELSE LET i == CHOOSE a \in starts : \A b \in starts : a <= b
             IN  <<i, at(i)>>

\* re.search(r"(\{.*\}|\[.*\])", text, re.DOTALL): the leftmost position at
\* which the pattern matches and the end of the greedy match there, <<0, 0>>
\* when the pattern matches nowhere
RegexSearch(s) ==
    LET starts == {i \in 1..Len(s) : MatchAt(s, i) # 0}
    IN  IF starts = {} THEN <<0, 0>>
        ELSE LET i == CHOOSE a \in starts : \A b \in starts : a <= b
             IN  <<i, MatchAt(s, i)>>

\* extract_json_from_text(text): the parsed value, or ValueError when
\* json.loads raises; the span is what the pattern matched.
extract_json_from_text(text) ==
    LET m == RegexSearch(text)
        r == IF m # <<0, 0>> THEN JsonLoads(SubSeq(text, m[1], m[2]))
             ELSE JsonLoads(text)
    IN  [raised |-> ~r.ok, val |-> r.val, span |-> m]

RECURSIVE Serialise(_), JoinValues(_, _), JoinMembers(_, _)

\* json.dumps(v): members and elements separated by ", ", keys by ": "
Serialise(v) ==
    CASE v[1] = "num" -> v[2]
      [] v[1] = "str" -> <<"k">>
      [] v[1] = "arr" -> <<"[">> \o JoinValues(v[2], 1) \o <<"]">>
      [] v[1] = "obj" -> <<"{">> \o JoinMembers(v[2], 1) \o <<"}">>

JoinValues(vs, i) ==
    IF i > Len(vs) THEN <<>>
    ELSE (IF i > 1 THEN <<",", " ">> ELSE <<>>) \o Serialise(vs[i])
         \o JoinValues(vs, i + 1)

JoinMembers(ms, i) ==
    IF i > Len(ms) THEN <<>>
    ELSE (IF i > 1 THEN <<",", " ">> ELSE <<>>) \o <<ms[i][1], ":", " ">>
         \o Serialise(ms[i][2][1]) \o JoinMembers(ms, i + 1)

-----------------------------------------------------------------------------
(* Model invocation and result: analysis.py, classify_document, steps 3, 4 *)

NoValue == <<"none", <<>>>>

\* The analysis of one response entry
FromModel(v) ==
    [document_status |-> "", failure_reason |-> "", detail |-> "", value |-> v]

ParseFailed ==
    [document_status |-> "FAILED",
     failure_reason |->
        "Model output parsing failed. The document structure could not be verified.",
     detail |-> "", value |-> NoValue]

\* main.py, the except branch of process: f"System Error: {str(e)}"
SystemError(msg) ==
    [document_status |-> "FAILED", failure_reason |-> "System Error",
     detail |-> msg, value |-> NoValue]

StepResult(raised, msg, analysis) ==
    [raised |-> raised, msg |-> msg, analysis |-> analysis]

\* Mutation: the ValueError of the parser is not caught
ParseStep_Propagates(raw) ==
    LET r == extract_json_from_text(Strip(raw)) IN
    IF r.raised THEN StepResult(TRUE, "Invalid JSON from model", ParseFailed)
    ELSE StepResult(FALSE, "", FromModel(r.val))

\* Step 4: raw_output = content.strip(); the parsed value, or the fixed
\* FAILED result when extract_json_from_text raises
ParseStep(raw) ==
    LET r == extract_json_from_text(Strip(raw)) IN
    IF r.raised THEN StepResult(FALSE, "", ParseFailed)
    ELSE StepResult(FALSE, "", FromModel(r.val))

ApiStatusError == [kind |-> "APIStatusError", content |-> <<>>]

Completion(content) == [kind |-> "completion", content |-> content]

\* Steps 3 and 4: the credential check, the call, the parse
ModelStep(hasKey, answer) ==
    IF ~hasKey THEN StepResult(TRUE, "OPENAI_API_KEY is missing in environment.", ParseFailed)
    ELSE IF answer.kind = "APIStatusError"
    THEN StepResult(TRUE, "Model API error", ParseFailed)
    ELSE ParseStep(answer.content)

-----------------------------------------------------------------------------
(* Inputs of the model                                                      *)

\* File names: every allowed extension, upper case, a disallowed extension,
\* no extension, a dot file, two dots, a name in a subdirectory.
FileNames ==
    { <<"a", ".", "p", "n", "g">>,
      <<"a", ".", "P", "N", "G">>,
      <<"b", ".", "j", "p", "g">>,
      <<"c", ".", "j", "p", "e", "g">>,
      <<"d", ".", "p", "d", "f">>,
      <<"d", ".", "P", "D", "F">>,
      <<"e", ".", "t", "x", "t">>,
      <<"f">>,
      <<".", "p", "d", "f">>,
      <<"g", ".", "p", "d", "f", ".", "t", "x", "t">>,
      <<"s", "/", "a", ".", "p", "n", "g">> }

\* File sizes: around both limits
FileSizes ==
    { 0, MIN_FILE_SIZE - 1, MIN_FILE_SIZE, MIN_FILE_SIZE + 1,
      MAX_FILE_SIZE - 1, MAX_FILE_SIZE, MAX_FILE_SIZE + 1 }

\* os.path.join(UPLOAD_DIR, file.filename), the directory written "u"
UploadPath(name) == <<"u", "/">> \o name

ProbeFiles ==
    [path : {UploadPath(n) : n \in FileNames}, exists : BOOLEAN,
     size : FileSizes, readable : BOOLEAN]

\* Longest prose before and after an embedded JSON object
MaxProse == 2

\* Longest model output examined character by character
MaxText == 3

\* All sequences over the alphabet A of length at most n
Texts(A, n) == UNION {[1..k -> A] : k \in 0..n}

ProseChars == {"x", "{", "}", "[", "]"}

OutputChars == {"x", " ", "1", "k", ",", ":", "{", "}", "[", "]"}

BraceChars == {"{", "}", "[", "]"}

JNum == <<"num", <<"1">>>>

JStr == <<"str", <<>>>>

\* JSON objects: empty, scalar members, nested object, nested arrays
JsonObjects ==
    { <<"obj", <<>>>>,
      <<"obj", << <<"k", <<JNum>>>> >>>>,
      <<"obj", << <<"k", <<JStr>>>> >>>>,
      <<"obj", << <<"k", << <<"obj", <<>>>> >>>> >>>>,
      <<"obj", << <<"k", << <<"arr", <<JNum, JStr>>>> >>>> >>>>,
      <<"obj", << <<"k", << <<"arr", << <<"obj", << <<"k", <<JNum>>>> >>>> >>>> >>>> >>>> }

\* Answers of the OCR provider: a failure, no document, a blank page, two
\* pages of text
OcrOutcomes ==
    { OcrError, OcrDocs(<<>>), OcrDocs(<< <<" ">> >>),
      OcrDocs(<< <<"T", " ">>, <<"T">> >>) }

\* config.py: the configured limit of concurrent OCR requests
MAX_CONCURRENT_OCR == 5

\* Most pages of a PDF
MaxPages == 10

\* Most uploads in the request of the specification Spec
MaxFiles == 2

Png == <<"a", ".", "p", "n", "g">>

Pdf == <<"d", ".", "p", "d", "f">>

Upload(name, size, readable, pages, badPage) ==
    [name |-> name, size |-> size, readable |-> readable, pages |-> pages,
     badPage |-> badPage]

\* Uploads: a valid image; a disallowed extension; an image under the size
\* limit; an unreadable image; PDFs of 2 and of MaxPages pages; a PDF of the
\* same stem with one page; a PDF fitz cannot open; a PDF whose second page
\* cannot be rendered; a small PDF; a name in a directory that does not exist.
Uploads ==
    { Upload(Png, 2048, TRUE, 0, 0),
      Upload(<<"e", ".", "t", "x", "t">>, 2048, TRUE, 0, 0),
      Upload(<<"b", ".", "j", "p", "g">>, MIN_FILE_SIZE - 1, TRUE, 0, 0),
      Upload(<<"c", ".", "j", "p", "e", "g">>, 2048, FALSE, 0, 0),
      Upload(Pdf, 2048, TRUE, 2, 0),
      Upload(Pdf, 4096, TRUE, MaxPages, 0),
      Upload(<<"d", ".", "P", "D", "F">>, 2048, TRUE, 1, 0),
      Upload(Pdf, 2048, TRUE, 0, 0),
      Upload(Pdf, 2048, TRUE, 2, 2),
      Upload(Pdf, MIN_FILE_SIZE - 1, TRUE, 1, 0),
      Upload(<<"s", "/", "a", ".", "p", "n", "g">>, 2048, TRUE, 0, 0) }

\* Answers of the model provider: a rejection, a JSON object with white
\* space around it, prose, prose with braces that are no JSON, a bare number
ModelAnswers ==
    { ApiStatusError,
      Completion(<<" ", "{", "k", ":", " ", "1", "}", "\n">>),
      Completion(<<"x", "x">>),
      Completion(<<"{", "x", "}">>),
      Completion(<<"1">>) }

\* Uploads of a batch: a valid image, a disallowed extension, a PDF fitz
\* cannot open, a name in a directory that does not exist
BatchUploads ==
    { Upload(Png, 2048, TRUE, 0, 0),
      Upload(<<"e", ".", "t", "x", "t">>, 2048, TRUE, 0, 0),
      Upload(Pdf, 2048, TRUE, 0, 0),
      Upload(<<"s", "/", "a", ".", "p", "n", "g">>, 2048, TRUE, 0, 0) }

\* Uploads in flight in the specification SpecOcr: two more than the limit
ConcurrentUploads == MAX_CONCURRENT_OCR + 2

Stems == {SplitextRoot(UploadPath(u.name)) : u \in Uploads}

-----------------------------------------------------------------------------
(* The batch handler: main.py, analyze and process                         *)

\* open(path, "wb") fails for a file name that names a directory under
\* uploads/: the handler creates uploads/ alone.
WriteFails(name) == RFind(name, "/") # 0

\* The file the pipeline finds on disk after process wrote it
Stored(u) ==
    [path |-> UploadPath(u.name), exists |-> TRUE, size |-> u.size,
     readable |-> u.readable, pages |-> u.pages, badPage |-> u.badPage]

\* Mutation: the OCR call awaited, so that the event loop runs other tasks
\* while the request is out
OcrCallSuspends_Awaited == TRUE

\* classify_document calls extract_text_from_image as a plain function: the
\* event loop thread stays with the task for the whole OCR request.
OcrCallSuspends == FALSE

Pending == [file |-> <<>>, analysis |-> FromModel(NoValue), set |-> FALSE]

Entry(name, analysis) == [file |-> name, analysis |-> analysis, set |-> TRUE]

\* Mutation: results collected as the tasks complete
StoreResult_CompletionOrder(slots, i, e) ==
    LET k == CHOOSE j \in 1..Len(slots) :
                 ~slots[j].set /\ \A h \in 1..(j - 1) : slots[h].set
    IN  [slots EXCEPT ![k] = e]

\* asyncio.gather keeps the result of its i-th awaitable in position i
StoreResult(slots, i, e) == [slots EXCEPT ![i] = e]

TaskIds == 1..Len(tasks)

ReqIds == {tasks[t].req : t \in TaskIds}

TasksOf(r) == {t \in TaskIds : tasks[t].req = r}

\* the position of task t in the upload list of its request
IndexOf(t) == Cardinality({u \in 1..t : tasks[u].req = tasks[t].req})

FileOf(t) == Stored(tasks[t].file)

StemOf(t) == SplitextRoot(FileOf(t).path)

\* process(file) returns: its entry goes to the gather of its request and
\* the event loop is free again.
Return(t, analysis, held) ==
    LET r == tasks[t].req IN
    /\ st' = [st EXCEPT ![t] = [held EXCEPT !.pc = "done"]]
    /\ req' = [req EXCEPT ![r] =
                 [@ EXCEPT !.slots = StoreResult(@, IndexOf(t),
                                                 Entry(tasks[t].file.name, analysis)),
                           !.outOfOrder =
                               @ \/ \E u \in TasksOf(r) : u < t /\ st[u].pc # "done"]]
    /\ running' = 0

\* analyze(files) is called: gather starts one process(file) per upload, and
\* each runs up to its await file.read().
Analyze(r) ==
    /\ running = 0
    /\ req[r].state = "idle"
    /\ req' = [req EXCEPT ![r].state = "gathering"]
    /\ st' = [t \in TaskIds |->
                IF tasks[t].req = r THEN [st[t] EXCEPT !.pc = "reading"] ELSE st[t]]
    /\ UNCHANGED <<probe, tasks, env, running, ocrInFlight, imageDirs, openDocs>>

\* await file.read() completes and the event loop resumes the task.
ReadDone(t) ==
    /\ running = 0
    /\ st[t].pc = "reading"
    /\ running' = t
    /\ st' = [st EXCEPT ![t].pc = "write"]
    /\ UNCHANGED <<probe, tasks, env, ocrInFlight, req, imageDirs, openDocs>>

\* with open(path, "wb") as f: f.write(contents), outside the try block: a
\* failure ends the task with the exception.
Write(t) ==
    /\ running = t
    /\ st[t].pc = "write"
    /\ IF WriteFails(tasks[t].file.name)
       THEN /\ st' = [st EXCEPT ![t].pc = "raised", ![t].error = "write"]
            /\ running' = 0
       ELSE /\ st' = [st EXCEPT ![t].pc = "extract"]
            /\ UNCHANGED running
    /\ UNCHANGED <<probe, tasks, env, ocrInFlight, req, imageDirs, openDocs>>

\* The end of step 1 of classify_document with the extractor's answer x
AfterExtract(t, x, called) ==
    IF x.raised
    THEN Return(t, SystemError("OCR failed"),
                [st[t] EXCEPT !.error = "extract", !.ocrCalled = called])
    ELSE /\ st' = [st EXCEPT ![t].pc = "visual", ![t].text = x.text,
                             ![t].ocrCalled = called]
         /\ running' = t
         /\ UNCHANGED req

\* extract_text_from_image up to the OCR request: validation and the
\* construction of the LlamaParse client.
ExtractBegin(t) ==
    /\ running = t
    /\ st[t].pc = "extract"
    /\ \E parserOk \in BOOLEAN :
          IF ReachesOcr(FileOf(t), parserOk)
          THEN /\ ocrInFlight' = ocrInFlight + 1
               /\ st' = [st EXCEPT ![t].pc = "ocr", ![t].ocrCalled = TRUE]
               /\ running' = IF OcrCallSuspends THEN 0 ELSE t
               /\ UNCHANGED req
          ELSE /\ AfterExtract(t, extract_text_from_image(FileOf(t), parserOk, OcrError),
                               FALSE)
               /\ UNCHANGED ocrInFlight
    /\ UNCHANGED <<probe, tasks, env, imageDirs, openDocs>>

\* load_data() returns or raises: the OCR request is over.
OcrEnd(t) ==
    /\ running = (IF OcrCallSuspends THEN 0 ELSE t)
    /\ st[t].pc = "ocr"
    /\ ocrInFlight' = ocrInFlight - 1
    /\ \E ocr \in OcrOutcomes :
          AfterExtract(t, extract_text_from_image(FileOf(t), TRUE, ocr), TRUE)
    /\ UNCHANGED <<probe, tasks, env, imageDirs, openDocs>>

\* Step 2 of classify_document: rasterize and attach.
Visual(t) ==
    /\ running = t
    /\ st[t].pc = "visual"
    /\ LET v == VisualContext(FileOf(t), imageDirs[StemOf(t)]) IN
       /\ imageDirs' = [imageDirs EXCEPT ![StemOf(t)] = v.pages]
       /\ openDocs' = IF v.leaked THEN openDocs \cup {t} ELSE openDocs
       /\ IF v.raised
          THEN Return(t, SystemError(v.msg), [st[t] EXCEPT !.error = "visual"])
          ELSE /\ st' = [st EXCEPT ![t].pc = "invoke", ![t].images = v.images]
               /\ UNCHANGED <<running, req>>
    /\ UNCHANGED <<probe, tasks, env, ocrInFlight>>

\* Steps 3 and 4 of classify_document, and the return of process.
Invoke(t) ==
    /\ running = t
    /\ st[t].pc = "invoke"
    /\ \E answer \in ModelAnswers :
          LET m == ModelStep(env.openaiKey, answer)
              sent == env.openaiKey
              held == [st[t] EXCEPT
                         !.invoked = sent,
                         !.raw = IF sent /\ answer.kind = "completion"
                                 THEN answer.content ELSE <<>>,
                         !.answered = sent /\ answer.kind = "completion",
                         !.error = IF m.raised THEN "model" ELSE "none"]
          IN  Return(t, IF m.raised THEN SystemError(m.msg) ELSE m.analysis, held)
    /\ UNCHANGED <<probe, tasks, env, ocrInFlight, imageDirs, openDocs>>

\* await asyncio.gather(...) returns: every process(file) has returned.
Respond(r) ==
    /\ running = 0
    /\ req[r].state = "gathering"
    /\ \A t \in TasksOf(r) : st[t].pc = "done"
    /\ req' = [req EXCEPT ![r].state = "responded", ![r].response = req[r].slots]
    /\ UNCHANGED <<probe, tasks, env, st, running, ocrInFlight, imageDirs, openDocs>>

\* await asyncio.gather(...) raises: a process(file) ended with an exception
\* (the other tasks go on); analyze ends with that exception.
RaiseBatch(r) ==
    /\ running = 0
    /\ req[r].state = "gathering"
    /\ \E t \in TasksOf(r) : st[t].pc = "raised"
    /\ req' = [req EXCEPT ![r].state = "raised"]
    /\ UNCHANGED <<probe, tasks, env, st, running, ocrInFlight, imageDirs, openDocs>>

-----------------------------------------------------------------------------
(* The service                                                              *)

NoProbe == [op |-> "none", done |-> FALSE]

Task0 ==
    [pc |-> "new", text |-> <<>>, ocrCalled |-> FALSE, images |-> <<>>,
     invoked |-> FALSE, answered |-> FALSE, raw |-> <<>>, error |-> "none"]

\* The state after start-up with the uploads ts still to be handled
InitWith(ts) ==
    /\ probe = NoProbe
    /\ tasks = ts
    /\ env \in [openaiKey : BOOLEAN]
    /\ st = [t \in 1..Len(ts) |-> Task0]
    /\ running = 0
    /\ ocrInFlight = 0
    /\ req = [r \in {ts[t].req : t \in 1..Len(ts)} |->
                LET n == Cardinality({t \in 1..Len(ts) : ts[t].req = r})
                IN  [state |-> "idle", slots |-> [i \in 1..n |-> Pending],
                     response |-> <<>>, outOfOrder |-> FALSE]]
    /\ imageDirs = [s \in Stems |-> {}]
    /\ openDocs = {}

\* One request with a batch of up to MaxFiles uploads
Init ==
    \E n \in 1..MaxFiles : \E fs \in [1..n -> BatchUploads] :
        InitWith([i \in 1..n |-> [req |-> 1, file |-> fs[i]]])

Next ==
    \/ \E r \in ReqIds : Analyze(r)
    \/ \E t \in TaskIds : ReadDone(t)
    \/ \E t \in TaskIds : Write(t)
    \/ \E t \in TaskIds : ExtractBegin(t)
    \/ \E t \in TaskIds : OcrEnd(t)
    \/ \E t \in TaskIds : Visual(t)
    \/ \E t \in TaskIds : Invoke(t)
    \/ \E r \in ReqIds : Respond(r)
    \/ \E r \in ReqIds : RaiseBatch(r)

Spec == Init /\ [][Next]_vars

\* Two requests at once, ConcurrentUploads uploads between them: valid
\* images, and last a name the handler cannot write. The model credential
\* is unset, so every pipeline ends at the credential check of step 3; the
\* OCR stage before it is the one of Spec.
InitOcr ==
    /\ InitWith([i \in 1..ConcurrentUploads |->
                   [req  |-> IF 2 * i <= ConcurrentUploads THEN 1 ELSE 2,
                    file |-> IF i < ConcurrentUploads
                             THEN Upload(Png, 2048, TRUE, 0, 0)
                             ELSE Upload(<<"s", "/", "a", ".", "p", "n", "g">>,
                                         2048, TRUE, 0, 0)]])
    /\ ~env.openaiKey

SpecOcr == InitOcr /\ [][Next]_vars

\* Two requests of one upload each, every kind of upload: a document and
\* the document analysed before it or beside it
InitDocs ==
    \E a \in Uploads, b \in Uploads :
        InitWith(<<[req |-> 1, file |-> a], [req |-> 2, file |-> b]>>)

SpecDocs == InitDocs /\ [][Next]_vars

\* No request: the state of the service while one function is examined
SysIdle ==
    /\ tasks = <<>>
    /\ env = [openaiKey |-> TRUE]
    /\ st = <<>>
    /\ running = 0
    /\ ocrInFlight = 0
    /\ req = <<>>
    /\ imageDirs = [s \in Stems |-> {}]
    /\ openDocs = {}

-----------------------------------------------------------------------------
(* The validator on its own                                                 *)

InitValidate ==
    /\ SysIdle
    /\ \E f \in ProbeFiles :
        probe = [op |-> "validate", arg |-> f, done |-> FALSE,
                 out |-> ValidateResult(FALSE, "", <<>>, <<>>), file |-> f]

\* One call of _validate_file; the file is only inspected.
Validate ==
    /\ probe.op = "validate"
    /\ ~probe.done
    /\ probe' = [probe EXCEPT !.done = TRUE, !.out = _validate_file(probe.arg)]
    /\ UNCHANGED sysVars

NextValidate == Validate

SpecValidate == InitValidate /\ [][NextValidate]_vars

-----------------------------------------------------------------------------
(* The result parser on its own                                             *)

ParseOut0 == [raised |-> FALSE, val |-> <<"none", <<>>>>, span |-> <<0, 0>>]

\* Either a JSON object serialised between two pieces of prose, or any short
\* text.
InitParse ==
    /\ SysIdle
    /\ \/ \E pre \in Texts(ProseChars, MaxProse), suf \in Texts(ProseChars, MaxProse),
             obj \in JsonObjects :
               probe = [op |-> "parse_embedded",
                        arg |-> pre \o Serialise(obj) \o suf,
                        pre |-> pre, obj |-> obj, suf |-> suf,
                        done |-> FALSE, out |-> ParseOut0]
       \/ \E text \in Texts(OutputChars, MaxText) :
               probe = [op |-> "parse_text", arg |-> text,
                        pre |-> <<>>, obj |-> <<"none", <<>>>>, suf |-> <<>>,
                        done |-> FALSE, out |-> ParseOut0]

\* One call of extract_json_from_text
ExtractJson ==
    /\ probe.op \in {"parse_embedded", "parse_text"}
    /\ ~probe.done
    /\ probe' = [probe EXCEPT !.done = TRUE, !.out = extract_json_from_text(probe.arg)]
    /\ UNCHANGED sysVars

NextParse == ExtractJson

SpecParse == InitParse /\ [][NextParse]_vars

-----------------------------------------------------------------------------
(* The text extractor on its own                                            *)

InitExtract ==
    /\ SysIdle
    /\ \E f \in ProbeFiles, parserOk \in BOOLEAN, ocr \in OcrOutcomes :
        probe = [op |-> "extract", arg |-> f, parserOk |-> parserOk, ocr |-> ocr,
                 done |-> FALSE, out |-> ExtractResult(FALSE, <<>>, FALSE)]

\* One call of extract_text_from_image
Extract ==
    /\ probe.op = "extract"
    /\ ~probe.done
    /\ probe' = [probe EXCEPT !.done = TRUE,
                   !.out = extract_text_from_image(probe.arg, probe.parserOk, probe.ocr)]
    /\ UNCHANGED sysVars

NextExtract == Extract

SpecExtract == InitExtract /\ [][NextExtract]_vars

-----------------------------------------------------------------------------
(* C5: the validator's result is the first failing check                    *)

CheckOrder == <<"exists", "extension", "size", "readable">>

\* The file's last path component carries one of the allowed extensions,
\* compared without regard to case, after a non-empty stem.
HasAllowedExtension(path) ==
    \E e \in ALLOWED_EXTENSIONS :
        /\ EndsWith(Lower(Basename(path)), e)
        /\ Len(Basename(path)) > Len(e)

CheckPasses(f, k) ==
    CASE k = 1 -> f.exists
      [] k = 2 -> HasAllowedExtension(f.path)
      [] k = 3 -> 1024 <= f.size /\ f.size <= 100 * 1024 * 1024
      [] k = 4 -> f.readable

\* The first check of the fixed order that fails, 0 when all pass
FirstFailing(f) ==
    LET bad == {k \in 1..4 : ~CheckPasses(f, k)}
    IN  IF bad = {} THEN 0 ELSE CHOOSE k \in bad : \A j \in bad : k <= j

FailureReasons(k) ==
    CASE k = 1 -> {"File not found"}
      [] k = 2 -> {"Unsupported file type"}
      [] k = 3 -> {"File too small", "File too large"}
      [] k = 4 -> {"File not readable"}

\* C5: _validate_file returns OK exactly when the file exists, has an allowed
\* extension (case-insensitive), has a size in [1 KiB, 100 MiB] and is
\* readable; otherwise it returns the reason of the first check that fails in
\* the order existence, extension, size, readability, it has evaluated no
\* check after that one, and the file is as it was.
C5_ValidatorFirstFailingCheck ==
    (probe.op = "validate" /\ probe.done) =>
        LET f == probe.arg
            r == probe.out
            k == FirstFailing(f)
        IN  /\ r.ok <=> (k = 0)
            /\ r.ok => r.msg = "OK" /\ r.checked = CheckOrder
            /\ ~r.ok => /\ r.msg \in FailureReasons(k)
                        /\ r.checked = SubSeq(CheckOrder, 1, k)
            /\ r.msg = "File too small" => f.size < 1024
            /\ r.msg = "File too large" => f.size > 100 * 1024 * 1024
            /\ probe.file = f

\* A file over the size limit that is also unreadable: the size check
\* answers and readability is never evaluated.
C5_Witness ==
    /\ probe.op = "validate"
    /\ probe.done
    /\ ~probe.arg.readable
    /\ probe.out.msg = "File too large"
    /\ probe.out.checked = <<"exists", "extension", "size">>

-----------------------------------------------------------------------------
(* C7, C8: the result parser                                                *)

HasChar(s, cs) == \E i \in 1..Len(s) : s[i] \in cs

FirstOf(s, c) == FirstAfter(s, 0, c)

LastOf(s, c) == LastAfter(s, 0, c)

\* The span from the first opening brace to the last closing brace was
\* extracted and parsed to the embedded object.
RoundTrips ==
    /\ ~probe.out.raised
    /\ probe.out.val = probe.obj
    /\ probe.out.span = <<FirstOf(probe.arg, "{"), LastOf(probe.arg, "}")>>

\* C7 as stated: for every valid JSON object J and every prose prefix and
\* suffix, extract_json_from_text(prefix + serialise(J) + suffix) extracts
\* the span from the first "{" to the last "}" and returns a structure equal
\* to J.
C7_RoundTripAnyProse ==
    (probe.op = "parse_embedded" /\ probe.done) => RoundTrips

\* C7 as amended: the round trip holds for every valid JSON object J, every
\* prefix that holds no "{" and no "[" and every suffix that holds no "}".
C7_RoundTripCleanProse ==
    (/\ probe.op = "parse_embedded"
     /\ probe.done
     /\ ~HasChar(probe.pre, {"{", "["})
     /\ ~HasChar(probe.suf, {"}"})) => RoundTrips

\* A nested object between prose that holds the brackets the amended claim
\* still allows, parsed back.
C7_Witness ==
    /\ probe.op = "parse_embedded"
    /\ probe.done
    /\ probe.pre = <<"x", "]">>
    /\ probe.suf = <<"[", "x">>
    /\ probe.obj = <<"obj", << <<"k", << <<"obj", <<>>>> >>>> >>>>
    /\ RoundTrips

\* C8 as stated: for every input text that holds none of "{", "}", "[", "]",
\* extract_json_from_text fails with ValueError and returns no value.
C8_BraceFreeInputFails ==
    (/\ probe.op = "parse_text"
     /\ probe.done
     /\ ~HasChar(probe.arg, BraceChars)) => probe.out.raised

-----------------------------------------------------------------------------
(* C4: the text extractor never raises                                      *)

\* Extraction succeeded: the file is valid, the client was constructed and
\* the provider returned at least one document.
ExtractionSucceeded ==
    /\ FirstFailing(probe.arg) = 0
    /\ probe.parserOk
    /\ probe.ocr.kind = "docs"
    /\ probe.ocr.docs # <<>>

\* C4: for every file and every failure (validation failure, OCR client
\* construction failure, OCR provider failure, empty document list),
\* extract_text_from_image raises nothing and returns a string, the empty
\* string whenever extraction did not succeed.
C4_ExtractorNeverRaises ==
    (probe.op = "extract" /\ probe.done) =>
        /\ ~probe.out.raised
        /\ probe.out.text \in Seq({"T", " ", "\n"})
        /\ ~ExtractionSucceeded => probe.out.text = <<>>

\* A valid file whose OCR request the provider fails: the empty string.
C4_Witness ==
    /\ probe.op = "extract"
    /\ probe.done
    /\ FirstFailing(probe.arg) = 0
    /\ probe.parserOk
    /\ probe.ocr.kind = "error"
    /\ probe.out.ocrCalled
    /\ probe.out.text = <<>>

-----------------------------------------------------------------------------
(* C1, C2: the batch handler                                                *)

\* the entry gathered for task t
EntryOf(t) == req[tasks[t].req].slots[IndexOf(t)]

\* C1 as stated: whatever error is raised while one document is processed,
\* the batch call never raises; its response has an entry for every input
\* file, the entry of a document whose processing raised is a FAILED result
\* with a system-error reason, and the entry of every other document is the
\* result of its own pipeline.
C1_BatchIsolation ==
    \A r \in ReqIds :
        /\ req[r].state # "raised"
        /\ req[r].state = "responded" =>
              /\ Len(req[r].response) = Cardinality(TasksOf(r))
              /\ \A t \in TasksOf(r) :
                    LET e == req[r].response[IndexOf(t)] IN
                    /\ e.set
                    /\ st[t].error # "none" =>
                          /\ e.analysis.document_status = "FAILED"
                          /\ e.analysis.failure_reason = "System Error"
                    /\ st[t].error = "none" =>
                          e.analysis = ParseStep(st[t].raw).analysis

\* C2: whenever POST /analyze responds to a batch of n files, in whatever
\* order the per-file pipelines completed, the response has exactly n
\* entries and entry i carries the file name of the i-th upload.
C2_ResponseInUploadOrder ==
    \A r \in ReqIds :
        req[r].state = "responded" =>
            /\ Len(req[r].response) = Cardinality(TasksOf(r))
            /\ \A t \in TasksOf(r) :
                  /\ req[r].response[IndexOf(t)].set
                  /\ req[r].response[IndexOf(t)].file = tasks[t].file.name

\* A response to two uploads of different names of which the second
\* completed first.
C2_Witness ==
    \E r \in ReqIds :
        /\ req[r].state = "responded"
        /\ req[r].outOfOrder
        /\ Len(req[r].response) = 2
        /\ req[r].response[1].file = Png
        /\ req[r].response[2].file = <<"e", ".", "t", "x", "t">>

-----------------------------------------------------------------------------
(* C3: OCR calls in flight                                                  *)

\* C3: in every reachable state, over all documents of all requests the
\* process handles at once, at most MAX_CONCURRENT_OCR (5) calls of the OCR
\* provider are in flight.
C3_OcrCallsBounded == ocrInFlight <= 5

\* An OCR call in flight while more uploads than the limit wait for the
\* event loop, in two requests.
C3_Witness ==
    /\ ocrInFlight = 1
    /\ \E t \in TaskIds : st[t].pc = "ocr"
    /\ Cardinality({t \in TaskIds : st[t].pc = "reading"}) >= 5
    /\ \A r \in ReqIds : \E t \in TasksOf(r) : st[t].pc = "reading"
    /\ Cardinality(ReqIds) = 2

-----------------------------------------------------------------------------
(* C6: page attachments of a PDF                                            *)

\* the file name without its four-character extension
BaseName(name) == SubSeq(name, 1, Len(name) - 4)

\* C6 as stated: for every PDF of N pages, whatever was analysed before it,
\* once it is rasterized page_1.png .. page_N.png are on disk under the
\* PDF's base name and the image attachments of its model request are
\* exactly those N page images, in ascending numeric page order.
C6_PdfAttachments ==
    \A t \in TaskIds :
        (/\ st[t].pc = "invoke"
         /\ EndsWith(Lower(tasks[t].file.name), <<".", "p", "d", "f">>)) =>
            LET n    == tasks[t].file.pages
                stem == BaseName(tasks[t].file.name)
            IN  /\ 1..n \subseteq imageDirs[stem]
                /\ st[t].images =
                      [i \in 1..n |-> ImagePath(stem, PageFileName(i))]

-----------------------------------------------------------------------------
(* C9, C10: failures inside classify_document                               *)

\* C9: whenever the result parser fails on the model's raw output,
\* classify_document raises nothing and returns the fixed FAILED result,
\* whatever the output was.
C9_ParseFailureContained ==
    \A t \in TaskIds :
        (/\ st[t].pc = "done"
         /\ st[t].answered
         /\ extract_json_from_text(Strip(st[t].raw)).raised) =>
            /\ st[t].error = "none"
            /\ EntryOf(t).analysis.document_status = "FAILED"
            /\ EntryOf(t).analysis.failure_reason =
                  "Model output parsing failed. The document structure could not be verified."
            /\ EntryOf(t).analysis.detail = ""
            /\ EntryOf(t).analysis.value = NoValue

\* A model answer with braces that is no JSON, turned into the fixed result.
C9_Witness ==
    \E t \in TaskIds :
        /\ st[t].pc = "done"
        /\ st[t].answered
        /\ st[t].raw = <<"{", "x", "}">>
        /\ EntryOf(t).analysis = ParseFailed

\* the document fails validation
FailsValidation(t) == FirstFailing(FileOf(t)) # 0

\* no OCR call was made, the prompt carries empty OCR text, the model was
\* invoked
Degraded(t) ==
    /\ ~st[t].ocrCalled
    /\ st[t].text = <<>>
    /\ st[t].invoked
    /\ st[t].error \in {"none", "model"}

\* C10 as stated: for every document that fails validation (bad extension,
\* size out of bounds, unreadable), with the credential present, no OCR call
\* is made, the pipeline is not aborted, the prompt is assembled with empty
\* OCR text and the model is invoked.
C10_ValidationFailureDegrades ==
    \A t \in TaskIds :
        (st[t].pc = "done" /\ FailsValidation(t) /\ env.openaiKey) => Degraded(t)

\* step 2 can load the images of the document: the file is readable and, for
\* a path ending in .pdf, every page is rendered
ImagesLoadable(t) ==
    /\ tasks[t].file.readable
    /\ EndsWith(Lower(tasks[t].file.name), <<".", "p", "d", "f">>) =>
          tasks[t].file.pages > 0 /\ tasks[t].file.badPage = 0

\* C10 as amended: the same, for every document that fails validation and
\* whose images step 2 can load (a readable file; for a path ending in
\* .pdf, one that is rasterized without error).
C10_ValidationFailureDegradesWhenLoadable ==
    \A t \in TaskIds :
        (st[t].pc = "done" /\ FailsValidation(t) /\ env.openaiKey
            /\ ImagesLoadable(t)) => Degraded(t)

\* A file with a disallowed extension, attached and sent to the model
\* without OCR text.
C10_Witness ==
    \E t \in TaskIds :
        /\ st[t].pc = "done"
        /\ env.openaiKey
        /\ tasks[t].file.name = <<"e", ".", "t", "x", "t">>
        /\ st[t].images = <<FileOf(t).path>>
        /\ Degraded(t)
        /\ st[t].answered

-----------------------------------------------------------------------------
(* C11: release of the PDF handle                                           *)

\* The pdf_to_images call of task t has ended and had opened the document:
\* step 2 is over for a path ending in .pdf that fitz.open accepts.
PdfCallOpened(t) ==
    /\ st[t].pc \in {"invoke", "done"}
    /\ st[t].error \notin {"write", "extract"}
    /\ EndsWith(Lower(FileOf(t).path), <<".", "p", "d", "f">>)
    /\ FileOf(t).readable
    /\ FileOf(t).pages > 0

\* C11: every call of pdf_to_images that opened the PDF document has closed
\* the document handle by the time the call ends, both when all pages were
\* rendered and when rendering or saving a page raised.
C11_PdfHandleReleased ==
    \A t \in TaskIds : PdfCallOpened(t) => t \notin openDocs

=============================================================================
